---- MODULE Spec2Model ----
(***************************************************************************)
(* Gaussian elimination without row swapping, as implemented by            *)
(* LinearSystemSolver.solve and driven by SolverApp.solve_gui in           *)
(* src/project.py.  Rational values are pairs <<numerator, denominator>>   *)
(* in lowest terms with a positive denominator, as fractions.Fraction      *)
(* keeps them.  Row and column counters are 0-based as in the source; the  *)
(* TLA+ sequences they index are 1-based, hence the "+ 1" at every access. *)
(***************************************************************************)
EXTENDS Integers, Sequences, FiniteSets, TLC

VARIABLES caller, entries, dialog, coefficients, constants, matrix, pc,
          pivot_row, col, r, i, pivot_col, solutions, log

vars == <<caller, entries, dialog, coefficients, constants, matrix, pc,
          pivot_row, col, r, i, pivot_col, solutions, log>>

(***************************************************************************)
(* Bounds of the model.                                                    *)
(***************************************************************************)
MaxRows == 3
MaxVars == 3
MaxCells == 8

(***************************************************************************)
(* fractions.Fraction: exact rational arithmetic.                          *)
(***************************************************************************)
Abs(x) == IF x < 0 THEN -x ELSE x

RECURSIVE Gcd(_, _)
Gcd(a, b) == IF b = 0 THEN a ELSE Gcd(b, a % b)

\* Fraction(n, d) for d > 0: reduced to lowest terms.
Fraction(n, d) == LET g == Gcd(Abs(n), d) IN <<n \div g, d \div g>>

Zero == <<0, 1>>
One == <<1, 1>>

\* a - b, over the least common denominator.
FracSub(a, b) ==
    LET g == Gcd(a[2], b[2])
    IN Fraction(a[1] * (b[2] \div g) - b[1] * (a[2] \div g), (a[2] \div g) * b[2])

\* a * b, cancelling across before multiplying.
FracMul(a, b) ==
    LET g1 == Gcd(Abs(a[1]), b[2])
        g2 == Gcd(Abs(b[1]), a[2])
    IN IF a[1] = 0 \/ b[1] = 0 THEN Zero
       ELSE <<(a[1] \div g1) * (b[1] \div g2), (a[2] \div g2) * (b[2] \div g1)>>

\* a / b for b # 0.
FracDiv(a, b) ==
    FracMul(a, IF b[1] < 0 THEN <<-b[2], -b[1]>> ELSE <<b[2], b[1]>>)

\* Fraction.limit_denominator()'s default max_denominator.
MaxDenominator == 1000000

\* The continued-fraction loop of Fraction.limit_denominator; den is the
\* denominator of the value being approximated.  The final choice between
\* the two bounds, abs(bound2 - self) <= abs(bound1 - self), is taken in
\* its cross-multiplied form 2*d*(q0+k*q1) <= den.
RECURSIVE LimitLoop(_, _, _, _, _, _, _)
LimitLoop(p0, q0, p1, q1, n, d, den) ==
    LET a == n \div d
        q2 == q0 + a * q1
    IN IF q2 > MaxDenominator
       THEN LET k == (MaxDenominator - q0) \div q1
            IN IF 2 * d * (q0 + k * q1) <= den
               THEN Fraction(p1, q1)
               ELSE Fraction(p0 + k * p1, q0 + k * q1)
       ELSE LimitLoop(p1, q1, p0 + a * p1, q2, d, n - a * d, den)

limit_denominator(x) ==
    IF x[2] <= MaxDenominator THEN x
    ELSE LimitLoop(0, 1, 1, 0, x[1], x[2], x[2])

(***************************************************************************)
(* Cells as the callers supply them: <<"num", n, d>> is the numeric or     *)
(* fraction text n/d (d = 0 is the text "n/0"), <<"empty", 0, 1>> is the   *)
(* empty string and <<"bad", 0, 1>> is text that is no number.             *)
(***************************************************************************)
Num(n) == <<"num", n, 1>>
Frac(n, d) == <<"num", n, d>>
Empty == <<"empty", 0, 1>>
Bad == <<"bad", 0, 1>>

\* Convertible, had Fraction() read text that is no number as zero.
Convertible_Lenient(c) == c[3] > 0

\* Whether Fraction(x) returns rather than raises.
Convertible(c) == c[1] = "num" /\ c[3] > 0

\* Fraction(x) of a convertible cell.
ToFraction(c) == Fraction(c[2], c[3])

\* e.get().strip() or "0": an empty entry reads as zero.
OrZero(c) == IF c[1] = "empty" THEN Num(0) ELSE c

(***************************************************************************)
(* format_value and the log lines.                                         *)
(***************************************************************************)
format_value(x) ==
    IF x[2] = 1 THEN ToString(x[1])
    ELSE ToString(x[1]) \o "/" \o ToString(x[2])

\* One invocation of log_callback: the text it receives, and what the line
\* is about (kind; row, other: 1-based row or column numbers as printed;
\* val: the rational the line formats).
Line(kind, text, row, other, val) ==
    [kind |-> kind, text |-> text \o "\n", row |-> row, other |-> other, val |-> val]

Header(kind, text) == Line(kind, text, 0, 0, Zero)

\* f'{val:>8}': right-aligned in a field of eight.
RECURSIVE Pad8(_)
Pad8(s) == IF Len(s) >= 8 THEN s ELSE Pad8(" " \o s)

RECURSIVE JoinRow(_, _)
JoinRow(row, k) ==
    IF k > Len(row) THEN ""
    ELSE Pad8(format_value(row[k])) \o (IF k < Len(row) THEN ", " ELSE "") \o JoinRow(row, k + 1)

RECURSIVE RowLines(_, _)
RowLines(m, k) ==
    IF k > Len(m) THEN <<>>
    ELSE <<Line("matrix_row", " [" \o JoinRow(m[k], 1) \o "]", k, 0, Zero)>> \o RowLines(m, k + 1)

print_matrix(m, title) ==
    <<Header("matrix_title", "\n--- " \o title \o " ---")>>
    \o RowLines(m, 1)
    \o <<Header("matrix_rule", "----------------------------------------")>>

(***************************************************************************)
(* The inputs.                                                             *)
(***************************************************************************)
\* Values of the cells of the enumerated systems.
CellValues == {0, 1, 2}

\* <<rows, coefficient columns>> of the enumerated systems.
Shapes ==
    {s \in (0..MaxRows) \X (0..MaxVars) : s[1] * (s[2] + 1) <= MaxCells}

Systems(nr, nv, cells) ==
    [1..nr -> [1..nv -> cells]] \X [1..nr -> cells]

\* Every system of every shape over CellValues.
GridInputs ==
    UNION {Systems(s[1], s[2], {Num(v) : v \in CellValues}) : s \in Shapes}

\* What a text entry or an argument may hold.
Tokens == {Num(0), Num(1), Num(2), Empty, Bad}

\* One- and two-row systems in one variable over Tokens.
TokenInputs == Systems(1, 1, Tokens) \cup Systems(2, 1, Tokens)

Row2(a, b) == <<Num(a), Num(b)>>

\* The systems the specification's test list names, and systems with
\* cells that Fraction() reduces, that limit_denominator() moves, or that
\* Fraction() refuses.
Examples ==
    { <<<<Row2(2, 1), Row2(1, 3)>>, Row2(5, 10)>>,
      <<<<Row2(1, 1), Row2(2, 2)>>, Row2(3, 6)>>,
      <<<<Row2(1, 1), Row2(1, 1)>>, Row2(2, 3)>>,
      <<<<Row2(0, 1), Row2(1, 0)>>, Row2(2, 3)>>,
      <<<<Row2(1, 0), Row2(0, 1)>>, Row2(5, 7)>>,
      <<<<<<Num(1), Num(0), Num(0)>>, <<Num(0), Num(1), Num(0)>>,
          <<Num(0), Num(0), Num(1)>>>>, <<Num(5), Num(7), Num(9)>>>>,
      <<<<Row2(0, 0), Row2(0, 1), Row2(2, 1)>>, <<Num(0), Num(1), Num(3)>>>>,
      <<<<Row2(0, 1), Row2(1, 0), Row2(2, 0)>>, <<Num(0), Num(1), Num(2)>>>>,
      <<<<<<Frac(2, 4)>>>>, <<Frac(3, 6)>>>>,
      <<<<<<Num(1)>>>>, <<Frac(1, 1000001)>>>>,
      <<<<<<Frac(1, 1000001)>>, <<Num(1)>>>>, <<Frac(2, 1000001), Num(2)>>>>,
      <<<<<<Frac(1, 1000001)>>, <<Num(2)>>>>, <<Frac(1, 1000001), Num(1)>>>>,
      <<<<<<>>>>, <<Frac(1, 10000000)>>>>,
      <<<<<<>>>>, <<Frac(1, 1000001)>>>>,
      <<<<<<>>, <<>>>>, <<Num(0), Frac(1, 10000000)>>>>,
      <<<<<<Frac(1, 0)>>>>, <<Num(1)>>>>,
      <<<<Row2(1, 1), <<Num(1), Bad>>>>, Row2(1, 2)>> }

DirectInputs == GridInputs \cup TokenInputs \cup Examples

\* The texts the Rows and Total Columns fields hold at a click on
\* Generate Grid: <<rows_var, cols_var>>.
GridSizes ==
    { <<Num(1), Num(2)>>, <<Num(1), Num(3)>>, <<Num(2), Num(2)>>,
      <<Num(0), Num(2)>>, <<Num(1), Num(1)>>, <<Bad, Num(2)>>, <<Num(2), Empty>> }

Init ==
    /\ caller \in {"direct", "gui"}
    /\ IF caller = "direct"
       THEN /\ \E inp \in DirectInputs : coefficients = inp[1] /\ constants = inp[2]
            /\ pc = "call"
       ELSE /\ coefficients = <<>>
            /\ constants = <<>>
            /\ pc = "idle"
    /\ entries = <<>>
    /\ dialog = "none"
    /\ matrix = <<>>
    /\ pivot_row = 0
    /\ col = 0
    /\ r = 0
    /\ i = 0
    /\ pivot_col = -1
    /\ solutions = <<>>
    /\ log = <<>>

(***************************************************************************)
(* SolverApp: the callbacks of the window.  Between two callbacks the      *)
(* window waits in the main loop (pc is "idle", or "done" after a click on *)
(* SOLVE SYSTEM); the locals of the previous callback no longer exist, and *)
(* a message box has been dismissed.                                       *)
(***************************************************************************)
Waiting == caller = "gui" /\ pc \in {"idle", "done"}

\* Nothing of an earlier solver.solve call is left.
NoLocals ==
    /\ matrix' = <<>>
    /\ pivot_row' = 0
    /\ col' = 0
    /\ r' = 0
    /\ i' = 0
    /\ pivot_col' = -1
    /\ solutions' = <<>>

\* int(text) succeeds on a whole number only.
IsInt(t) == t[1] = "num" /\ t[3] = 1

\* Lines 184-205: Generate Grid.  A field that is no integer, rows < 1 or
\* total columns < 2 shows the dialog and leaves the grid; otherwise the
\* grid is replaced by rows x total_cols entries holding "0".
create_grid ==
    /\ Waiting
    /\ \E size \in GridSizes :
          IF IsInt(size[1]) /\ IsInt(size[2]) /\ size[1][2] >= 1 /\ size[2][2] >= 2
          THEN /\ entries' = [a \in 1..size[1][2] |-> [b \in 1..size[2][2] |-> Num(0)]]
               /\ dialog' = "none"
          ELSE /\ dialog' = "Invalid Input"
               /\ UNCHANGED entries
    /\ pc' = "idle"
    /\ coefficients' = <<>>
    /\ constants' = <<>>
    /\ NoLocals
    /\ UNCHANGED <<caller, log>>

\* The user replaces the text of one entry of the grid (lines 201-204: the
\* entries are editable; line 229 reads them).
edit_entry ==
    /\ Waiting
    /\ \E a \in 1..Len(entries) : \E b \in 1..Len(entries[a]) :
          \E text \in Tokens \ {entries[a][b]} :
              entries' = [entries EXCEPT ![a][b] = text]
    /\ pc' = "idle"
    /\ dialog' = "none"
    /\ coefficients' = <<>>
    /\ constants' = <<>>
    /\ NoLocals
    /\ UNCHANGED <<caller, log>>

AllCells(grid) == {grid[a][b] : a \in 1..Len(grid), b \in 1..Len(IF grid = <<>> THEN <<>> ELSE grid[1])}

\* values[:-1] and values[-1] of every row, each value Fraction(text or "0").
ParsedCoefficients(grid) ==
    [a \in 1..Len(grid) |->
        [b \in 1..(Len(grid[a]) - 1) |->
            LET f == ToFraction(OrZero(grid[a][b])) IN Frac(f[1], f[2])]]

ParsedConstants(grid) ==
    [a \in 1..Len(grid) |->
        LET f == ToFraction(OrZero(grid[a][Len(grid[a])])) IN Frac(f[1], f[2])]

\* Lines 216-233: the click on SOLVE SYSTEM, up to the call of solver.solve.
\* Without a grid the warning is shown and the output is left as it is;
\* otherwise the output is emptied before the entries are read.
solve_gui ==
    /\ Waiting
    /\ IF entries = <<>>
       THEN /\ dialog' = "No Matrix"
            /\ pc' = "done"
            /\ coefficients' = <<>>
            /\ constants' = <<>>
            /\ UNCHANGED log
       ELSE IF \E c \in AllCells(entries) : ~Convertible(OrZero(c))
       THEN /\ dialog' = "Input Error"
            /\ pc' = "done"
            /\ coefficients' = <<>>
            /\ constants' = <<>>
            /\ log' = <<>>
       ELSE /\ coefficients' = ParsedCoefficients(entries)
            /\ constants' = ParsedConstants(entries)
            /\ pc' = "call"
            /\ dialog' = "none"
            /\ log' = <<>>
    /\ NoLocals
    /\ UNCHANGED <<caller, entries>>

(***************************************************************************)
(* LinearSystemSolver.solve                                                *)
(***************************************************************************)
rows == Len(coefficients)
cols == Len(matrix[1])
n_vars == cols - 1

\* Lines 36-38: every cell through Fraction(x).limit_denominator().
BuildMatrix(coef, cons) ==
    [a \in 1..Len(coef) |->
        [b \in 1..(Len(coef[a]) + 1) |->
            limit_denominator(ToFraction(IF b <= Len(coef[a]) THEN coef[a][b] ELSE cons[a]))]]

InputCells(coef, cons) ==
    {coef[a][b] : a \in 1..Len(coef), b \in 1..Len(IF coef = <<>> THEN <<>> ELSE coef[1])}
      \cup {cons[a] : a \in 1..Len(cons)}

\* An exception leaving solve: solve_gui catches it and shows the dialog.
Raise ==
    /\ pc' = IF caller = "gui" THEN "done" ELSE "raised"
    /\ dialog' = IF caller = "gui" THEN "Input Error" ELSE dialog

\* IsEmptySystem, had solve also returned at once on rows without coefficients.
IsEmptySystem_OrNoColumns(coef) == Len(coef) = 0 \/ Len(coef[1]) = 0

\* Lines 32-34: rows == 0.
IsEmptySystem(coef) == Len(coef) = 0

\* Lines 32-45: the empty system returns at once; otherwise the matrix is
\* built, and only then the first lines are logged.
solve_begin ==
    /\ pc = "call"
    /\ IF IsEmptySystem(coefficients)
       THEN /\ pc' = "done"
            /\ UNCHANGED <<dialog, matrix, log>>
       ELSE IF \E c \in InputCells(coefficients, constants) : ~Convertible(c)
       THEN /\ Raise
            /\ UNCHANGED <<matrix, log>>
       ELSE LET m == BuildMatrix(coefficients, constants)
            IN /\ matrix' = m
               /\ log' = <<Header("initial", "INITIAL SYSTEM:")>>
                           \o print_matrix(m, "Augmented Matrix")
                           \o <<Header("phase1", "\n=== PHASE 1: ROW ECHELON FORM (Gaussian Elimination) ===")>>
               /\ pc' = "phase1"
               /\ UNCHANGED dialog
    /\ pivot_row' = 0
    /\ col' = 0
    /\ UNCHANGED <<caller, entries, coefficients, constants, r, i, pivot_col, solutions>>

\* ScaleRow, had the division stopped short of the constant column.
ScaleRow_CoefficientsOnly(row, pivot_val) ==
    [c \in 1..Len(row) |-> IF c < Len(row) THEN FracDiv(row[c], pivot_val) ELSE row[c]]

\* matrix[pivot_row] = [x / pivot_val for x in matrix[pivot_row]]
ScaleRow(row, pivot_val) == [c \in 1..Len(row) |-> FracDiv(row[c], pivot_val)]

\* SubtractRow, had the loop run over range(n_vars) instead of range(cols).
SubtractRow_CoefficientsOnly(row, factor, prow) ==
    [c \in 1..Len(row) |->
        IF c < Len(row) THEN FracSub(row[c], FracMul(factor, prow[c])) ELSE row[c]]

\* [matrix[r][c_idx] - (factor * matrix[pivot_row][c_idx]) for c_idx in range(cols)]
SubtractRow(row, factor, prow) ==
    [c \in 1..Len(row) |-> FracSub(row[c], FracMul(factor, prow[c]))]

SubtractLine(target, factor, source) ==
    Line("subtract",
         "OPERATION: R" \o ToString(target + 1) \o " <--- R" \o ToString(target + 1)
           \o " - (" \o format_value(factor) \o " * R" \o ToString(source + 1) \o ")",
         target + 1, source + 1, factor)

\* Phase1Skip, had solve exchanged the pivot row with a lower row holding a
\* nonzero entry in the column, as partial pivoting would.
Phase1Skip_Swapping ==
    /\ pc = "phase1"
    /\ col < n_vars
    /\ pivot_row < rows
    /\ matrix[pivot_row + 1][col + 1] = Zero
    /\ IF \E b \in (pivot_row + 2)..rows : matrix[b][col + 1] # Zero
       THEN LET b == CHOOSE b \in (pivot_row + 2)..rows : matrix[b][col + 1] # Zero
            IN /\ matrix' = [matrix EXCEPT ![pivot_row + 1] = matrix[b], ![b] = matrix[pivot_row + 1]]
               /\ UNCHANGED <<col, log>>
       ELSE /\ log' = Append(log, Line("skip",
                        "Pivot at R" \o ToString(pivot_row + 1) \o ", C" \o ToString(col + 1)
                          \o " is zero. Swapping disabled, skipping column.",
                        pivot_row + 1, col + 1, Zero))
            /\ col' = col + 1
            /\ UNCHANGED matrix
    /\ UNCHANGED <<caller, entries, dialog, coefficients, constants, pc,
                   pivot_row, r, i, pivot_col, solutions>>

\* Lines 50-52: a zero pivot is logged and the column skipped; no row moves.
Phase1Skip ==
    /\ pc = "phase1"
    /\ col < n_vars
    /\ pivot_row < rows
    /\ matrix[pivot_row + 1][col + 1] = Zero
    /\ log' = Append(log, Line("skip",
                 "Pivot at R" \o ToString(pivot_row + 1) \o ", C" \o ToString(col + 1)
                   \o " is zero. Swapping disabled, skipping column.",
                 pivot_row + 1, col + 1, Zero))
    /\ col' = col + 1
    /\ UNCHANGED <<caller, entries, dialog, coefficients, constants, matrix, pc,
                   pivot_row, r, i, pivot_col, solutions>>

\* NeedsScale, had every nonzero pivot been divided through.
NeedsScale_Always(pivot_val) == TRUE

\* Line 53: if pivot_val != 1.
NeedsScale(pivot_val) == pivot_val # One

\* Lines 53-56: the pivot row is divided by a pivot that is not 1.
Phase1Pivot ==
    /\ pc = "phase1"
    /\ col < n_vars
    /\ pivot_row < rows
    /\ LET pivot_val == matrix[pivot_row + 1][col + 1]
           scaled == [matrix EXCEPT ![pivot_row + 1] = ScaleRow(@, pivot_val)]
       IN /\ pivot_val # Zero
          /\ IF NeedsScale(pivot_val)
             THEN /\ matrix' = scaled
                  /\ log' = Append(log, Line("scale",
                              "OPERATION: R" \o ToString(pivot_row + 1) \o " <--- R"
                                \o ToString(pivot_row + 1) \o " / ("
                                \o format_value(pivot_val) \o ")",
                              pivot_row + 1, 0, pivot_val))
                            \o print_matrix(scaled, "Current Matrix State")
             ELSE UNCHANGED <<matrix, log>>
    /\ r' = pivot_row + 1
    /\ pc' = "eliminate"
    /\ UNCHANGED <<caller, entries, dialog, coefficients, constants,
                   pivot_row, col, i, pivot_col, solutions>>

\* Lines 58-65: one row below the pivot row; after the last, pivot_row += 1.
Phase1Eliminate ==
    /\ pc = "eliminate"
    /\ IF r < rows
       THEN LET factor == matrix[r + 1][col + 1]
                new == [matrix EXCEPT ![r + 1] = SubtractRow(@, factor, matrix[pivot_row + 1])]
            IN /\ IF factor # Zero
                  THEN /\ matrix' = new
                       /\ log' = Append(log, SubtractLine(r, factor, pivot_row))
                                   \o print_matrix(new, "Current Matrix State")
                  ELSE UNCHANGED <<matrix, log>>
               /\ r' = r + 1
               /\ UNCHANGED <<pc, pivot_row, col>>
       ELSE /\ pivot_row' = pivot_row + 1
            /\ col' = col + 1
            /\ r' = 0
            /\ pc' = "phase1"
            /\ UNCHANGED <<matrix, log>>
    /\ UNCHANGED <<caller, entries, dialog, coefficients, constants, i, pivot_col, solutions>>

\* Lines 46-48 and 66-68: the columns are exhausted or pivot_row ran out.
Phase1Done ==
    /\ pc = "phase1"
    /\ (col >= n_vars \/ pivot_row >= rows)
    /\ log' = log \o <<Header("ref", "\n>>> Matrix is now in Row Echelon Form (REF)."),
                       Header("phase2", "\n=== PHASE 2: REDUCED ROW ECHELON FORM (Back Substitution) ===")>>
    /\ pc' = "phase2"
    /\ i' = rows - 1
    /\ pivot_row' = 0
    /\ col' = 0
    /\ UNCHANGED <<caller, entries, dialog, coefficients, constants, matrix,
                   r, pivot_col, solutions>>

\* FindPivotCol, had the scan looked for the first nonzero entry.
FindPivotCol_FirstNonzero(row, nv) ==
    IF \E c \in 0..(nv - 1) : row[c + 1] # Zero
    THEN CHOOSE c \in 0..(nv - 1) :
            /\ row[c + 1] # Zero
            /\ \A b \in 0..(c - 1) : row[b + 1] = Zero
    ELSE -1

\* Lines 71-75: the first coefficient column holding exactly 1, or -1.
FindPivotCol(row, nv) ==
    IF \E c \in 0..(nv - 1) : row[c + 1] = One
    THEN CHOOSE c \in 0..(nv - 1) :
            /\ row[c + 1] = One
            /\ \A b \in 0..(c - 1) : row[b + 1] # One
    ELSE -1

\* Lines 70-77: the next row from the bottom; a row with no 1 is passed over.
Phase2Row ==
    /\ pc = "phase2"
    /\ i >= 0
    /\ LET found == FindPivotCol(matrix[i + 1], n_vars)
       IN IF found = -1
          THEN /\ i' = i - 1
               /\ UNCHANGED <<pc, pivot_col, r>>
          ELSE /\ pivot_col' = found
               /\ r' = i - 1
               /\ pc' = "clear"
               /\ UNCHANGED i
    /\ UNCHANGED <<caller, entries, dialog, coefficients, constants, matrix,
                   pivot_row, col, solutions, log>>

\* Lines 78-84: one row above the detected pivot row.
Phase2Clear ==
    /\ pc = "clear"
    /\ IF r >= 0
       THEN LET factor == matrix[r + 1][pivot_col + 1]
                new == [matrix EXCEPT ![r + 1] = SubtractRow(@, factor, matrix[i + 1])]
            IN /\ IF factor # Zero
                  THEN /\ matrix' = new
                       /\ log' = Append(log, SubtractLine(r, factor, i))
                                   \o print_matrix(new, "Current Matrix State")
                  ELSE UNCHANGED <<matrix, log>>
               /\ r' = r - 1
               /\ UNCHANGED <<pc, i, pivot_col>>
       ELSE /\ i' = i - 1
            /\ r' = 0
            /\ pivot_col' = -1
            /\ pc' = "phase2"
            /\ UNCHANGED <<matrix, log>>
    /\ UNCHANGED <<caller, entries, dialog, coefficients, constants,
                   pivot_row, col, solutions>>

\* Lines 85-88: every row has been visited.
Phase2Done ==
    /\ pc = "phase2"
    /\ i < 0
    /\ log' = log \o <<Header("rref", "\n>>> Matrix is now in Reduced Row Echelon Form (RREF)."),
                       Header("final", "\n=== FINAL SOLUTION ===")>>
    /\ pc' = "final"
    /\ i' = 0
    /\ solutions' = <<>>
    /\ UNCHANGED <<caller, entries, dialog, coefficients, constants, matrix,
                   pivot_row, col, r, pivot_col>>

\* is_all_zeros, had the slice [:-1] been left out.
is_all_zeros_WholeRow(row) == \A c \in 1..Len(row) : row[c] = Zero

\* all(x == 0 for x in matrix[i][:-1])
is_all_zeros(row) == \A c \in 1..(Len(row) - 1) : row[c] = Zero

\* Lines 89-98: one row of the final matrix; an inconsistent row ends solve.
FinalRow ==
    /\ pc = "final"
    /\ i < rows
    /\ LET row == matrix[i + 1]
           constant == row[Len(row)]
       IN IF is_all_zeros(row) /\ constant # Zero
          THEN /\ log' = Append(log, Header("inconsistent", "System is INCONSISTENT (No Solution)."))
               /\ pc' = "done"
               /\ UNCHANGED <<i, solutions>>
          ELSE IF is_all_zeros(row) /\ constant = Zero
          THEN /\ i' = i + 1
               /\ UNCHANGED <<pc, solutions, log>>
          ELSE /\ solutions' = Append(solutions, constant)
               /\ i' = i + 1
               /\ UNCHANGED <<pc, log>>
    /\ UNCHANGED <<caller, entries, dialog, coefficients, constants, matrix,
                   pivot_row, col, r, pivot_col>>

\* for idx, val in enumerate(solutions): self.log(f"x{idx+1} = ...")
SolutionLines(sols) ==
    [k \in 1..Len(sols) |->
        Line("x", "x" \o ToString(k) \o " = " \o format_value(sols[k]), k, 0, sols[k])]

\* Lines 99-103: the accepted values, or the notice that there are none.
Report ==
    /\ pc = "final"
    /\ i >= rows
    /\ log' = IF solutions # <<>>
              THEN log \o SolutionLines(solutions)
              ELSE Append(log, Header("infinite", "Infinite solutions or trivial system."))
    /\ pc' = "done"
    /\ UNCHANGED <<caller, entries, dialog, coefficients, constants, matrix,
                   pivot_row, col, r, i, pivot_col, solutions>>

Next ==
    \/ create_grid
    \/ edit_entry
    \/ solve_gui
    \/ solve_begin
    \/ Phase1Skip
    \/ Phase1Pivot
    \/ Phase1Eliminate
    \/ Phase1Done
    \/ Phase2Row
    \/ Phase2Clear
    \/ Phase2Done
    \/ FinalRow
    \/ Report

Spec == Init /\ [][Next]_vars

(***************************************************************************)
(* Vocabulary of the properties.                                           *)
(***************************************************************************)
Lines(kind) == SelectSeq(log, LAMBDA e : e.kind = kind)
Count(kind) == Len(Lines(kind))
LastLine == log[Len(log)]
Operations == Count("scale") + Count("subtract")

\* The caller's cells as exact rationals, with no limit on the denominator.
ExactMatrix(coef, cons) ==
    [a \in 1..Len(coef) |->
        [b \in 1..(Len(coef[a]) + 1) |->
            ToFraction(IF b <= Len(coef[a]) THEN coef[a][b] ELSE cons[a])]]

\* A cell Fraction() refuses, told from the cell alone.
Malformed(c) == c[1] # "num" \/ c[3] <= 0

\* solve got as far as building its matrix.
Built == matrix # <<>>

\* The system solve was called with, exactly and as solve coerces it.
GivenSystem == ExactMatrix(coefficients, constants)
CoercedSystem == BuildMatrix(coefficients, constants)

FracAdd(a, b) == FracSub(a, <<-b[1], b[2]>>)

RECURSIVE Dot(_, _, _)
Dot(row, x, k) ==
    IF k > Len(x) THEN Zero ELSE FracAdd(FracMul(row[k], x[k]), Dot(row, x, k + 1))

\* x (one value per variable) satisfies every equation of m.
Satisfies(m, x) == \A a \in 1..Len(m) : Dot(m[a], x, 1) = m[a][Len(m[a])]

\* The determinant of the first n columns of the n rows of m (Laplace).
Without(n, k) == [b \in 1..(n - 1) |-> IF b < k THEN b ELSE b + 1]

RECURSIVE DetOn(_, _, _)
DetOn(m, rws, cls) ==
    IF Len(rws) = 0 THEN One
    ELSE LET n == Len(rws)
             term[k \in 0..n] ==
                 IF k = 0 THEN Zero
                 ELSE LET minor == DetOn(m, [b \in 1..(n - 1) |-> rws[b + 1]],
                                         [b \in 1..(n - 1) |-> cls[Without(n, k)[b]]])
                          signed == FracMul(m[rws[1]][cls[k]], minor)
                      IN IF k % 2 = 1 THEN FracAdd(term[k - 1], signed)
                         ELSE FracSub(term[k - 1], signed)
         IN term[n]

Det(m) == DetOn(m, [b \in 1..Len(m) |-> b], [b \in 1..Len(m) |-> b])

IsInput(coef, cons) == coefficients = coef /\ constants = cons

\* The log ends with one line per accepted value, x1.. in order.
EndsWithSolution(sols) ==
    /\ Len(log) >= Len(sols)
    /\ Count("x") = Len(sols)
    /\ \A k \in 1..Len(sols) :
          LET e == log[Len(log) - Len(sols) + k]
          IN /\ e.kind = "x"
             /\ e.text = "x" \o ToString(k) \o " = " \o format_value(sols[k]) \o "\n"

\* solve returned from a square system without meeting a zero pivot.
SquareNoZeroPivot ==
    /\ pc = "done"
    /\ Built
    /\ Len(matrix) = Len(matrix[1]) - 1
    /\ Count("skip") = 0

ExampleSimple == IsInput(<<Row2(2, 1), Row2(1, 3)>>, Row2(5, 10))

(***************************************************************************)
(* C1 (as amended).  For every square system in which Phase 1 never meets  *)
(* a zero pivot, solve reports exactly n lines x1..xn, and the reported    *)
(* values are the exact unique solution of the system as solve coerces it  *)
(* (every cell through limit_denominator()); for [[2,1],[1,3]], [5,10] the *)
(* log holds a scale and a subtract operation and ends x1 = 1, x2 = 3.     *)
(***************************************************************************)
C1_SquareSolvedExactlyAfterCoercion ==
    /\ SquareNoZeroPivot =>
          /\ Len(solutions) = Len(matrix)
          /\ EndsWithSolution(solutions)
          /\ Satisfies(CoercedSystem, solutions)
          /\ Det(CoercedSystem) # Zero
    /\ (ExampleSimple /\ pc = "done") =>
          /\ Count("scale") >= 1
          /\ Count("subtract") >= 1
          /\ log[Len(log) - 1].text = "x1 = 1\n"
          /\ LastLine.text = "x2 = 3\n"

\* C1 as stated: the reported values solve the system the caller gave.
C1_SquareSolvedExactly ==
    SquareNoZeroPivot =>
        /\ Len(solutions) = Len(matrix)
        /\ EndsWithSolution(solutions)
        /\ Satisfies(GivenSystem, solutions)
        /\ Det(GivenSystem) # Zero

C1_Witness ==
    /\ ExampleSimple
    /\ SquareNoZeroPivot
    /\ Count("scale") = 2
    /\ solutions = <<One, <<3, 1>>>>

(***************************************************************************)
(* C2.  For [[1,1],[2,2]], [3,6] solve subtracts the redundant row to all  *)
(* zeros, then reports "Infinite solutions or trivial system." and emits   *)
(* no x<i> = line.                                                         *)
(***************************************************************************)
C2_RedundantRowReportsInfinite ==
    (IsInput(<<Row2(1, 1), Row2(2, 2)>>, Row2(3, 6)) /\ pc = "done") =>
        /\ Count("subtract") >= 1
        /\ matrix[2] = <<Zero, Zero, Zero>>
        /\ LastLine.kind = "infinite"
        /\ Count("x") = 0

InconsistentRow(row) ==
    /\ \A c \in 1..(Len(row) - 1) : row[c] = Zero
    /\ row[Len(row)] # Zero

(***************************************************************************)
(* C3.  Whenever the final matrix holds a row of all-zero coefficients     *)
(* with a nonzero constant, solve logs the INCONSISTENT line, emits no     *)
(* x<i> = line (values accepted from earlier rows are dropped), emits      *)
(* nothing after the INCONSISTENT line, and returns without raising.       *)
(***************************************************************************)
C3_InconsistentReportedAlone ==
    (Built /\ pc \in {"final", "done"} /\ \E a \in 1..Len(matrix) : InconsistentRow(matrix[a])) =>
        /\ Count("x") = 0
        /\ Count("infinite") = 0
        /\ pc = "done" =>
              /\ LastLine.text = "System is INCONSISTENT (No Solution).\n"
              /\ Count("inconsistent") = 1
              /\ dialog = "none"

C3_Witness ==
    /\ IsInput(<<Row2(1, 1), Row2(1, 1)>>, Row2(2, 3))
    /\ pc = "done"
    /\ solutions = <<<<2, 1>>>>
    /\ LastLine.kind = "inconsistent"

ExampleZeroPivot == IsInput(<<Row2(0, 1), Row2(1, 0)>>, Row2(2, 3))

(***************************************************************************)
(* C4.  For [[0,1],[1,0]], [2,3] solve swaps no rows (it logs the zero     *)
(* pivot of column 1 and the matrix stays as built), and the reported      *)
(* x1 = 2, x2 = 3 is not the solution of the system, which is (3, 2).      *)
(***************************************************************************)
C4_ZeroPivotMishandled ==
    (ExampleZeroPivot /\ Built) =>
        /\ matrix = CoercedSystem
        /\ pc = "done" =>
              /\ Count("skip") = 1
              /\ Lines("skip")[1].row = 1
              /\ Lines("skip")[1].other = 1
              /\ Operations = 0
              /\ EndsWithSolution(<<<<2, 1>>, <<3, 1>>>>)
              /\ solutions = <<<<2, 1>>, <<3, 1>>>>
              /\ ~Satisfies(GivenSystem, solutions)
              /\ Satisfies(GivenSystem, <<<<3, 1>>, <<2, 1>>>>)
              /\ Det(GivenSystem) # Zero

C4_Witness ==
    /\ ExampleZeroPivot
    /\ pc = "done"
    /\ Count("skip") = 1
    /\ LastLine.text = "x2 = 3\n"

WellFormedInput == \A c \in InputCells(coefficients, constants) : ~Malformed(c)
NoRows == Len(coefficients) = 0
NoColumns == Len(coefficients) >= 1 /\ Len(coefficients[1]) = 0

\* The lines of the log that are not part of a printed matrix.
Headings ==
    SelectSeq(log, LAMBDA e : e.kind \notin {"matrix_title", "matrix_row", "matrix_rule"})

\* Some constant is nonzero: as the caller gave it, as solve coerces it.
SomeConstantGiven == \E a \in 1..Len(constants) : ToFraction(constants[a]) # Zero
SomeConstantCoerced ==
    \E a \in 1..Len(constants) : limit_denominator(ToFraction(constants[a])) # Zero

(***************************************************************************)
(* C5 (as amended).  A direct call with zero rows is a silent no-op: the   *)
(* log callback is never invoked, nothing is computed, no error is raised. *)
(* A call with rows that have no coefficient columns is not silent: solve  *)
(* logs INITIAL SYSTEM, the matrix and the headers of Phase 1, REF,        *)
(* Phase 2, RREF and FINAL SOLUTION in this order, performs no elimination *)
(* operation, and ends with one verdict: INCONSISTENT when some constant   *)
(* as coerced by limit_denominator() is nonzero, otherwise the             *)
(* infinite-or-trivial notice (so also for a nonzero constant that is      *)
(* coerced to 0, such as 1/10000000); no error is raised.                  *)
(***************************************************************************)
C5_OnlyZeroRowsIsSilent ==
    (caller = "direct" /\ WellFormedInput) =>
        /\ NoRows =>
              /\ log = <<>>
              /\ ~Built
              /\ solutions = <<>>
              /\ pc \in {"call", "done"}
        /\ NoColumns =>
              /\ pc # "raised"
              /\ Operations = 0
              /\ Count("skip") = 0
              /\ Count("x") = 0
              /\ pc # "call" =>
                    /\ Len(log) >= 1
                    /\ log[1].text = "INITIAL SYSTEM:\n"
                    /\ matrix = CoercedSystem
              /\ pc = "done" =>
                    /\ Len(Headings) = 7
                    /\ Headings[1].text = "INITIAL SYSTEM:\n"
                    /\ Headings[2].text =
                         "\n=== PHASE 1: ROW ECHELON FORM (Gaussian Elimination) ===\n"
                    /\ Headings[3].text = "\n>>> Matrix is now in Row Echelon Form (REF).\n"
                    /\ Headings[4].text =
                         "\n=== PHASE 2: REDUCED ROW ECHELON FORM (Back Substitution) ===\n"
                    /\ Headings[5].text =
                         "\n>>> Matrix is now in Reduced Row Echelon Form (RREF).\n"
                    /\ Headings[6].text = "\n=== FINAL SOLUTION ===\n"
                    /\ Headings[7] = LastLine
                    /\ LastLine.text =
                         IF SomeConstantCoerced
                         THEN "System is INCONSISTENT (No Solution).\n"
                         ELSE "Infinite solutions or trivial system.\n"
                    /\ Count("matrix_title") = 1
                    /\ Count("matrix_row") = Len(coefficients)

\* C5 as stated: zero rows or zero coefficient columns, nothing is logged.
C5_DegenerateIsSilent ==
    (caller = "direct" /\ WellFormedInput /\ (NoRows \/ NoColumns)) =>
        /\ log = <<>>
        /\ pc \in {"call", "done"}

\* A nonzero constant that is coerced to 0 is reported as infinite-or-trivial.
C5_Witness ==
    /\ caller = "direct"
    /\ NoColumns
    /\ WellFormedInput
    /\ SomeConstantGiven
    /\ ~SomeConstantCoerced
    /\ Len(coefficients) = 2
    /\ pc = "done"
    /\ LastLine.kind = "infinite"

(***************************************************************************)
(* C6.  If any cell cannot be parsed as an exact rational, the solve       *)
(* attempt fails with a single invalid-input error and the log callback is *)
(* never invoked: every cell is converted before the first log line, in    *)
(* solve_gui and in solve.                                                 *)
(***************************************************************************)
C6_MalformedInputLogsNothing ==
    /\ (caller = "gui" /\ \E c \in AllCells(entries) : Malformed(OrZero(c))) =>
          /\ ~Built
          /\ pc \in {"idle", "done"}
          /\ pc = "done" => (log = <<>> /\ dialog = "Input Error")
    /\ (caller = "direct" /\ ~WellFormedInput) =>
          /\ log = <<>>
          /\ ~Built
          /\ dialog = "none"
          /\ pc \in {"call", "raised"}
    /\ log # <<>> => WellFormedInput
    /\ (caller = "gui" /\ pc # "idle" /\ log # <<>>) =>
          \A c \in AllCells(entries) : ~Malformed(OrZero(c))

C6_Witness ==
    /\ caller = "gui"
    /\ Len(entries) = 2
    /\ entries[1] = <<Num(1), Num(2)>>
    /\ entries[2] = <<Num(1), Bad>>
    /\ pc = "done"
    /\ dialog = "Input Error"
    /\ log = <<>>

IdentityCoefficients ==
    /\ Len(coefficients) >= 1
    /\ WellFormedInput
    /\ \A a \in 1..Len(coefficients) :
          /\ Len(coefficients[a]) = Len(coefficients)
          /\ \A b \in 1..Len(coefficients) :
                ToFraction(coefficients[a][b]) = IF a = b THEN One ELSE Zero

(***************************************************************************)
(* C7 (as amended).  If the coefficient matrix is the identity, solve      *)
(* emits no OPERATION line in either phase, leaves the matrix as built,    *)
(* and reports, in row order, x_i = constants[i] as coerced by             *)
(* limit_denominator().                                                    *)
(***************************************************************************)
C7_IdentityReportsCoercedConstants ==
    (IdentityCoefficients /\ pc # "call") =>
        /\ Operations = 0
        /\ matrix = CoercedSystem
        /\ pc = "done" =>
              EndsWithSolution([k \in 1..Len(constants) |->
                                   limit_denominator(ToFraction(constants[k]))])

\* C7 as stated: x_i = constants[i].
C7_IdentityReportsConstants ==
    (IdentityCoefficients /\ pc # "call") =>
        /\ Operations = 0
        /\ matrix = CoercedSystem
        /\ pc = "done" =>
              EndsWithSolution([k \in 1..Len(constants) |-> ToFraction(constants[k])])

C7_Witness ==
    /\ IsInput(<<Row2(1, 0), Row2(0, 1)>>, Row2(5, 7))
    /\ pc = "done"
    /\ Operations = 0
    /\ log[Len(log) - 1].text = "x1 = 5\n"
    /\ LastLine.text = "x2 = 7\n"

\* The column (0-based) of the first nonzero coefficient, or -1.
LeadingCol(row) ==
    IF \E c \in 1..(Len(row) - 1) : row[c] # Zero
    THEN (CHOOSE c \in 1..(Len(row) - 1) :
             row[c] # Zero /\ \A b \in 1..(c - 1) : row[b] = Zero) - 1
    ELSE -1

\* Phase 2 is about to subtract a multiple of row i from row r.
Phase2Subtracting ==
    /\ pc = "clear"
    /\ r >= 0
    /\ matrix[r + 1][pivot_col + 1] # Zero

(***************************************************************************)
(* C8 (as amended).  In Phase 2 a row is used as the pivot row of a        *)
(* subtract operation only if one of its coefficients is exactly 1, the    *)
(* pivot column being the first such coefficient; a row with no            *)
(* coefficient equal to 1 is never a pivot row.  The row's leading         *)
(* nonzero entry need not be that 1.                                       *)
(***************************************************************************)
C8_PivotRowHoldsAOne ==
    pc = "clear" =>
        /\ pivot_col \in 0..(n_vars - 1)
        /\ r < i
        /\ matrix[i + 1][pivot_col + 1] = One
        /\ \A b \in 0..(pivot_col - 1) : matrix[i + 1][b + 1] # One

\* C8 as stated: the pivot row's leading entry is the 1.
C8_PivotRowLeadsWithOne ==
    Phase2Subtracting => LeadingCol(matrix[i + 1]) = pivot_col

C8_Witness ==
    /\ Phase2Subtracting
    /\ LeadingCol(matrix[i + 1]) # pivot_col
    /\ matrix[i + 1][LeadingCol(matrix[i + 1]) + 1] = <<2, 1>>

(***************************************************************************)
(* C9.  The number of x<i> = lines solve reports never exceeds the number  *)
(* of variables (coefficient columns).                                     *)
(***************************************************************************)
C9_AtMostOneValuePerVariable ==
    (pc = "done" /\ Built) => Count("x") <= n_vars

RowDivided(row, p) == [c \in 1..Len(row) |-> FracDiv(row[c], p)]
RowLess(row, f, other) == [c \in 1..Len(row) |-> FracSub(row[c], FracMul(f, other[c]))]
Entries(row) == {row[c] : c \in 1..Len(row)}

ElementaryStep(m, m2) ==
    \E a \in 1..Len(m) :
        /\ \A b \in 1..Len(m) : b # a => m2[b] = m[b]
        /\ \/ \E p \in Entries(m[a]) \ {Zero} : m2[a] = RowDivided(m[a], p)
           \/ \E b \in 1..Len(m) : \E f \in Entries(m[a]) :
                 b # a /\ m2[a] = RowLess(m[a], f, m[b])

\* Values tried for each variable, and the accepted values themselves.
CandidateValues == {<<-1, 1>>, Zero, <<1, 2>>, One, <<2, 1>>}

GridCandidates(nv) == [1..nv -> CandidateValues]

Candidates(nv) ==
    GridCandidates(nv) \cup (IF Len(solutions) = nv THEN {solutions} ELSE {})

ReportedInconsistent ==
    pc = "done" /\ Len(log) >= 1 /\ LastLine.kind = "inconsistent"

(***************************************************************************)
(* C10 (as amended).  Every matrix mutation of Phase 1 and Phase 2 is an   *)
(* elementary row operation (a row divided by a nonzero entry of its own,  *)
(* or a multiple of a different row subtracted), so in every reachable     *)
(* state the assignments satisfying the current matrix are those           *)
(* satisfying the matrix as built; consequently, whenever solve reports    *)
(* INCONSISTENT the system as coerced by limit_denominator() has no        *)
(* solution.                                                               *)
(***************************************************************************)
\* C10, as the inductive step: the matrix as built is the initial matrix;
\* each step that changes it is an elementary row operation that keeps the
\* satisfying assignments; the step that reports INCONSISTENT does so for a
\* coerced system that no assignment satisfies.
C10_RowOperationsKeepSolutions ==
    [][ /\ (Built /\ Built' /\ matrix' # matrix) =>
              /\ ElementaryStep(matrix, matrix')
              /\ \A x \in GridCandidates(n_vars) :
                    Satisfies(matrix', x) <=> Satisfies(matrix, x)
        /\ (~Built /\ Built') => matrix' = CoercedSystem
        /\ (ReportedInconsistent' /\ ~ReportedInconsistent) =>
              \A x \in Candidates(n_vars) : ~Satisfies(CoercedSystem, x) ]_vars

\* C10 as stated: INCONSISTENT is reported only when the system the caller
\* gave has no solution.
C10_InconsistentMeansNoSolution ==
    ReportedInconsistent => \A x \in GridCandidates(n_vars) : ~Satisfies(GivenSystem, x)

C10_Witness ==
    /\ ExampleSimple
    /\ pc = "clear"
    /\ Count("scale") = 2
    /\ Count("subtract") = 2
    /\ matrix # CoercedSystem
    /\ Satisfies(matrix, <<One, <<3, 1>>>>)

====
